---- MODULE Spec2Model ----
(***************************************************************************)
(* A model of cliff-stock-bench (src/src/main.rs): the five aggregation    *)
(* pipelines calc_key_ref, calc_key_clone, calc_read, calc_read_memchr and *)
(* calc_custom_read, the LineReader, ColIndices::from_header,              *)
(* ProductData::process_row and print_products.                            *)
(*                                                                         *)
(* Bytes are one-character strings, byte slices are sequences of them.     *)
(* A u32 is a record [hi, lo] of two 16-bit limbs (value hi*2^16 + lo), so *)
(* that the 32-bit width of the counters is kept exactly.                  *)
(***************************************************************************)
EXTENDS Integers, Sequences, FiniteSets, TLC

VARIABLES
    rows,      \* the logical input: the data lines of the file, as templates
    eofnl,     \* whether the file ends with a newline
    oc,        \* whether the build checks arithmetic overflow (debug) or not
    li,        \* index of the header layout of the file of the current run
    si,        \* index of the strategy of the current run
    text,      \* the bytes of the file of the current run
    pc,        \* position of the current run
    idx,       \* ColIndices resolved from the header
    products,  \* the aggregation table: key bytes -> ProductData
    lines,     \* calc_key_*: the remaining segments of text.split('\n')
    src,       \* the byte source (a Read): bytes delivered, read sizes, failure
    br,        \* BufReader: bytes read from the source and not yet consumed
    lr,        \* LineReader: buf, len, cur, line
    line,      \* the line the current loop iteration works on
    nrows,     \* number of loop iterations that consumed a line
    out,       \* report lines written by print_products
    results,   \* outcome of every finished run, by layout and strategy
    yielded    \* the lines next_line has returned (LineReader harness)

vars == <<rows, eofnl, oc, li, si, text, pc, idx, products, lines, src, br, lr,
          line, nrows, out, results, yielded>>

----------------------------------------------------------------------------
(* Bounds of the model.                                                    *)

MaxRows == 2
MaxChunk == 2
MaxFail == 1
MaxLen == 5

(* Program constants.                                                      *)

BUF_CAP == 32 * 1024
DEFAULT_BUF_SIZE == 8192
LIMB == 2 ^ 16

----------------------------------------------------------------------------
(* Byte-slice helpers.                                                     *)

NL == "\n"
COMMA == ","

Min(a, b) == IF a < b THEN a ELSE b

\* s[from..to) with 0-based offsets, as a Rust slice &s[from..to].
Slice(s, from, to) == SubSeq(s, from + 1, to)

\* The 1-based positions of the bytes of s equal to d.
Positions(s, d) == {i \in 1..Len(s) : s[i] = d}

\* The k-th smallest element of the set of integers P.
Nth(P, k) == CHOOSE p \in P : Cardinality({q \in P : q < p}) = k - 1

\* <[u8]>::split(|&b| b == d): n delimiters give n+1 segments, the k-th
\* lying between the (k-1)-th and the k-th delimiter.
Split(s, d) ==
    LET P == Positions(s, d)
        n == Cardinality(P)
    IN  [k \in 1..(n + 1) |->
            SubSeq(s, IF k = 1 THEN 1 ELSE Nth(P, k - 1) + 1,
                      IF k = n + 1 THEN Len(s) ELSE Nth(P, k) - 1)]

\* memchr(d, s): 0-based offset of the first d in s, -1 for None.
Memchr(d, s) ==
    LET P == Positions(s, d)
    IN  IF P = {} THEN -1 ELSE Nth(P, 1) - 1

\* memchr_iter(d, s): the 0-based offsets of every d in s, ascending.
MemchrIter(d, s) ==
    LET P == Positions(s, d)
    IN  [k \in 1..Cardinality(P) |-> Nth(P, k) - 1]

----------------------------------------------------------------------------
(* The byte source: an object implementing Read.  plan is the sequence of  *)
(* sizes its successive reads return, k the number of reads done, pos the  *)
(* number of bytes delivered; the read number fail (if any) returns an     *)
(* I/O error.  A read past the plan returns 0 bytes (end of file).         *)

(* fail = 0: no read fails.                                                *)

NewSource(plan, fail) == [pos |-> 0, k |-> 0, plan |-> plan, fail |-> fail]

\* reader.read(&mut buf[..cap])
Read(s, cap) ==
    IF s.fail = s.k + 1
    THEN [err |-> TRUE, bytes |-> <<>>, src |-> [s EXCEPT !.k = s.k + 1]]
    ELSE LET want == IF s.k < Len(s.plan) THEN s.plan[s.k + 1] ELSE 0
             n    == Min(Min(want, cap), Len(text) - s.pos)
         IN  [err   |-> FALSE,
              bytes |-> Slice(text, s.pos, s.pos + n),
              src   |-> [s EXCEPT !.k = s.k + 1, !.pos = s.pos + n]]

----------------------------------------------------------------------------
(* LineReader (main.rs 180-233).  buf holds the len valid bytes of the     *)
(* fixed buffer; the stale bytes beyond len are never read by next_line.   *)

LineReaderNew == [buf |-> <<>>, len |-> 0, cur |-> 0, line |-> <<>>]

None == [some |-> FALSE, line |-> <<>>]
Some(l) == [some |-> TRUE, line |-> l]

\* A next_line that drops a final line without newline.
AtEofDropsPending(pending) == None

\* The end-of-source arm of next_line (main.rs 223-229).
AtEof(pending) == IF pending = <<>> THEN None ELSE Some(pending)

\* The Some(i) arm of next_line (main.rs 205-214).
Found(r, i) ==
    LET seg == Slice(r.buf, r.cur, r.cur + i)
        r2  == [r EXCEPT !.cur = r.cur + i + 1]
    IN  IF r.line = <<>>
        THEN [lr |-> r2, ret |-> Some(seg)]
        ELSE [lr |-> [r2 EXCEPT !.line = r.line \o seg], ret |-> Some(r.line \o seg)]

RECURSIVE NextLineLoop(_, _)
NextLineLoop(r, s) ==
    LET i == Memchr(NL, Slice(r.buf, r.cur, r.len)) IN
    IF i >= 0
    THEN LET f == Found(r, i) IN [lr |-> f.lr, src |-> s, ret |-> f.ret, err |-> FALSE]
    ELSE LET r2 == [r EXCEPT !.line = r.line \o Slice(r.buf, r.cur, r.len),
                             !.cur = r.len]
             rd == Read(s, BUF_CAP)
         IN  IF rd.err
             THEN [lr |-> r2, src |-> rd.src, ret |-> None, err |-> TRUE]
             ELSE LET r3 == [r2 EXCEPT !.buf = rd.bytes, !.len = Len(rd.bytes), !.cur = 0]
                  IN  IF r3.len = 0
                      THEN [lr |-> r3, src |-> rd.src, ret |-> AtEof(r3.line), err |-> FALSE]
                      ELSE NextLineLoop(r3, rd.src)

\* LineReader::next_line
NextLine(r, s) == NextLineLoop([r EXCEPT !.line = <<>>], s)

----------------------------------------------------------------------------
(* u32 arithmetic on 16-bit limbs.                                         *)

U32(h, l) == [hi |-> h, lo |-> l]
Zero == U32(0, 0)

Less(a, b) == a.hi < b.hi \/ (a.hi = b.hi /\ a.lo < b.lo)

\* Ord::max
MaxU32(a, b) == IF Less(a, b) THEN b ELSE a

\* a + b in u32: the wrapped sum, and whether it overflowed.
AddU32(a, b) ==
    LET l == a.lo + b.lo
        h == a.hi + b.hi + (l \div LIMB)
    IN  [over |-> h >= LIMB, val |-> U32(h % LIMB, l % LIMB)]

Digits == {"0", "1", "2", "3", "4", "5", "6", "7", "8", "9"}

DigitVal(c) ==
    CASE c = "0" -> 0 [] c = "1" -> 1 [] c = "2" -> 2 [] c = "3" -> 3
      [] c = "4" -> 4 [] c = "5" -> 5 [] c = "6" -> 6 [] c = "7" -> 7
      [] c = "8" -> 8 [] c = "9" -> 9

RECURSIVE ParseDigits(_, _, _)
ParseDigits(s, i, acc) ==
    IF i > Len(s) THEN [ok |-> TRUE, val |-> acc]
    ELSE IF s[i] \notin Digits THEN [ok |-> FALSE, val |-> Zero]
    ELSE LET l == acc.lo * 10 + DigitVal(s[i])
             h == acc.hi * 10 + (l \div LIMB)
         IN  IF h >= LIMB THEN [ok |-> FALSE, val |-> Zero]
             ELSE ParseDigits(s, i + 1, U32(h, l % LIMB))

\* The sign handling of <u32 as FromStr>::from_str: one leading '+' is
\* stripped; '-' is not a sign of an unsigned type.
StripSign(s) == IF s[1] = "+" THEN Tail(s) ELSE s

\* parse_u32 (main.rs 149-155, 315-321): s.parse::<u32>(); ok = FALSE is the
\* Err that unwrap() turns into a panic.
ParseU32(s) ==
    IF s = <<>> THEN [ok |-> FALSE, val |-> Zero]
    ELSE IF s = <<"+">> \/ s = <<"-">> THEN [ok |-> FALSE, val |-> Zero]
    ELSE ParseDigits(StripSign(s), 1, Zero)

----------------------------------------------------------------------------
(* ColIndices::from_header (main.rs 279-308).                              *)

SourceName == <<"S", "o", "u", "r", "c", "e">>
BSName == <<"B", "/", "S">>
OrdQtyName == <<"O", "r", "d", "Q", "t", "y">>
WrkQtyName == <<"W", "r", "k", "Q", "t", "y">>
ExcQtyName == <<"E", "x", "c", "Q", "t", "y">>
ProdName == <<"P", "r", "o", "d">>

ToClnt == <<"T", "o", "C", "l", "n", "t">>
Buy == <<"B", "u", "y">>
Sell == <<"S", "e", "l", "l">>

\* The Option<usize> a header scan leaves for name: the index of the last
\* column equal to name, -1 for None.
ColumnOf(cols, name) ==
    LET hits == {i \in 1..Len(cols) : cols[i] = name}
    IN  IF hits = {} THEN -1 ELSE (CHOOSE i \in hits : \A j \in hits : j <= i) - 1

\* An unwrap_or_default() in place of unwrap(): a missing column is column 0.
UnwrapOrDefault(ix) ==
    [ok |-> TRUE, idx |-> [f \in DOMAIN ix |-> IF ix[f] < 0 THEN 0 ELSE ix[f]]]

\* What an index that is None becomes: unwrap() panics.
Unwrap(ix) == [ok |-> \A f \in DOMAIN ix : ix[f] >= 0, idx |-> ix]

FromHeader(header) ==
    LET cols == Split(header, COMMA)
        ix == [source |-> ColumnOf(cols, SourceName),
               bs     |-> ColumnOf(cols, BSName),
               ordqty |-> ColumnOf(cols, OrdQtyName),
               wrkqty |-> ColumnOf(cols, WrkQtyName),
               excqty |-> ColumnOf(cols, ExcQtyName),
               prod   |-> ColumnOf(cols, ProdName)]
        u == Unwrap(ix)
    IN  [ok |-> u.ok, idx |-> u.idx, cols |-> Len(cols)]

NoIdx ==
    [source |-> -1, bs |-> -1, ordqty |-> -1, wrkqty |-> -1, excqty |-> -1, prod |-> -1]

----------------------------------------------------------------------------
(* ProductData and the row update (main.rs 260-266, 313-333, 157-169).     *)
(* count, buys and sells are u32 too; they stay below MaxRows here.        *)

DefaultProductData == [count |-> 0, buys |-> 0, sells |-> 0, total_qty |-> Zero]

\* A match whose last arm counts every other value as a Sell.
DirectionElseSell(pd, bs) ==
    IF bs = Buy THEN [pd EXCEPT !.buys = pd.buys + 1]
    ELSE [pd EXCEPT !.sells = pd.sells + 1]

\* The match on the B/S field (main.rs 324-328, 161-165).
Direction(pd, bs) ==
    IF bs = Buy THEN [pd EXCEPT !.buys = pd.buys + 1]
    ELSE IF bs = Sell THEN [pd EXCEPT !.sells = pd.sells + 1]
    ELSE pd

\* total_qty += q: with overflow checks (a debug build) an overflow panics,
\* without them (a release build) the sum wraps modulo 2^32.
AddQty(pd, q, chk) ==
    LET s == AddU32(pd.total_qty, q)
    IN  IF s.over /\ chk THEN [ok |-> FALSE, pd |-> pd]
        ELSE [ok |-> TRUE, pd |-> [pd EXCEPT !.total_qty = s.val]]

\* A field access: f is [ok, val]; ok = FALSE is the index panic.
\* The update of one accumulator from the fields bs, ord, wrk, exc, each the
\* result of its access, in the order the code evaluates them.
Update(pd, bs, ord, wrk, exc, chk) ==
    LET pd1 == [pd EXCEPT !.count = pd.count + 1] IN
    IF ~ bs.ok THEN [ok |-> FALSE, pd |-> pd1]
    ELSE LET pd2 == Direction(pd1, bs.val) IN
    IF ~ ord.ok \/ ~ ParseU32(ord.val).ok THEN [ok |-> FALSE, pd |-> pd2]
    ELSE IF ~ wrk.ok \/ ~ ParseU32(wrk.val).ok THEN [ok |-> FALSE, pd |-> pd2]
    ELSE IF ~ exc.ok \/ ~ ParseU32(exc.val).ok THEN [ok |-> FALSE, pd |-> pd2]
    ELSE AddQty(pd2,
                MaxU32(ParseU32(ord.val).val,
                       MaxU32(ParseU32(wrk.val).val, ParseU32(exc.val).val)),
                chk)

\* cols[i] of a Vec<&[u8]>: out of bounds panics.
Field(cols, i) ==
    IF i < Len(cols) THEN [ok |-> TRUE, val |-> cols[i + 1]]
    ELSE [ok |-> FALSE, val |-> <<>>]

\* ProductData::process_row
ProcessRow(pd, cols, ix, chk) ==
    Update(pd, Field(cols, ix.bs), Field(cols, ix.ordqty),
           Field(cols, ix.wrkqty), Field(cols, ix.excqty), chk)

\* get_col (main.rs 176-178); cols[0] is usize::MAX, here -1, and
\* wrapping_add(1) takes it to 0.
GetCol(l, cols, col) ==
    IF col + 1 < Len(cols)
    THEN [ok |-> TRUE, val |-> Slice(l, cols[col + 1] + 1, cols[col + 2])]
    ELSE [ok |-> FALSE, val |-> <<>>]

\* A filter that lets every non-empty Source through.
IsNonEmpty(f) == f # <<>>

\* The filter on the Source field (main.rs 67, 88, 116, 147, 250).
IsToClnt(f) == f = ToClnt

\* entry(key).or_default()
OrDefault(p, key) ==
    [k \in DOMAIN p \cup {key} |-> IF k \in DOMAIN p THEN p[k] ELSE DefaultProductData]

\* One row through the lookup and the update, given the accesses to its
\* fields; ok = FALSE is a panic, and products is the table as it stood then.
Aggregate(p, source, prod, bs, ord, wrk, exc, chk) ==
    IF ~ source.ok THEN [ok |-> FALSE, products |-> p]
    ELSE IF ~ IsToClnt(source.val) THEN [ok |-> TRUE, products |-> p]
    ELSE IF ~ prod.ok THEN [ok |-> FALSE, products |-> p]
    ELSE LET p1 == OrDefault(p, prod.val)
             r  == Update(p1[prod.val], bs, ord, wrk, exc, chk)
         IN  [ok |-> r.ok, products |-> [p1 EXCEPT ![prod.val] = r.pd]]

\* The body of the row loop of calc_key_ref, calc_key_clone, calc_read and
\* calc_custom_read, after the empty-line test (main.rs 65-70).
SplitRow(p, l, ix, chk) ==
    LET cols == Split(l, COMMA) IN
    Aggregate(p, Field(cols, ix.source), Field(cols, ix.prod), Field(cols, ix.bs),
              Field(cols, ix.ordqty), Field(cols, ix.wrkqty), Field(cols, ix.excqty), chk)

\* The body of the row loop of calc_read_memchr (main.rs 143-170).
MemchrRow(p, l, ix, chk) ==
    LET cols == <<-1>> \o MemchrIter(COMMA, l) \o <<Len(l)>> IN
    Aggregate(p, GetCol(l, cols, ix.source), GetCol(l, cols, ix.prod),
              GetCol(l, cols, ix.bs), GetCol(l, cols, ix.ordqty),
              GetCol(l, cols, ix.wrkqty), GetCol(l, cols, ix.excqty), chk)

----------------------------------------------------------------------------
(* BufRead::read_until(b'\n', &mut line) on BufReader (main.rs 98, 101,    *)
(* 108): appends to line the bytes up to and including the next newline,   *)
(* or up to the end of the source; b is the buffered, unconsumed data.     *)

RECURSIVE ReadUntilLoop(_, _, _)
ReadUntilLoop(b, s, acc) ==
    LET fb == IF b = <<>> THEN Read(s, DEFAULT_BUF_SIZE)
              ELSE [err |-> FALSE, bytes |-> b, src |-> s]
        i  == Memchr(NL, fb.bytes)
    IN  IF fb.err THEN [err |-> TRUE, line |-> acc, br |-> <<>>, src |-> fb.src]
        ELSE IF i >= 0
        THEN [err |-> FALSE, line |-> acc \o Slice(fb.bytes, 0, i + 1),
              br |-> Slice(fb.bytes, i + 1, Len(fb.bytes)), src |-> fb.src]
        ELSE IF fb.bytes = <<>>
        THEN [err |-> FALSE, line |-> acc, br |-> <<>>, src |-> fb.src]
        ELSE ReadUntilLoop(<<>>, fb.src, acc \o fb.bytes)

ReadUntil(b, s) == ReadUntilLoop(b, s, <<>>)

----------------------------------------------------------------------------
(* The inputs: files made of a header in one of the layouts and of up to   *)
(* MaxRows data lines, each a record rendered in the layout's column order *)
(* or a raw line.                                                          *)

ColumnName(c) ==
    CASE c = "Source" -> SourceName [] c = "BS" -> BSName
      [] c = "OrdQty" -> OrdQtyName [] c = "WrkQty" -> WrkQtyName
      [] c = "ExcQty" -> ExcQtyName [] c = "Prod" -> ProdName
      [] c = "X" -> <<"X">>

Layouts ==
    << <<"Source", "BS", "OrdQty", "WrkQty", "ExcQty", "Prod", "X">>,
       <<"X", "Source", "BS", "OrdQty", "WrkQty", "ExcQty", "Prod">>,
       <<"Prod", "ExcQty", "Source", "WrkQty", "OrdQty", "BS", "X">>,
       <<"Source", "BS", "OrdQty", "WrkQty", "Prod", "X">> >>

\* The layouts that are permutations of the first one.
Permuted == {1, 2, 3}

Raw(bytes) == [kind |-> "raw", bytes |-> bytes]

Rec(source, bs, ordqty, wrkqty, excqty, prod) ==
    [kind |-> "rec",
     f |-> [Source |-> source, BS |-> bs, OrdQty |-> ordqty, WrkQty |-> wrkqty,
            ExcQty |-> excqty, Prod |-> prod, X |-> <<"x">>]]

\* A Buy of the largest u32; a Sell with a signed quantity; a row of another
\* source with malformed quantities; a row that is neither Buy nor Sell; a
\* quantity above the largest u32; a quantity that is no number; an empty
\* line; a line of two fields.
Templates ==
    { Rec(<<"T", "o", "C", "l", "n", "t">>, <<"B", "u", "y">>,
                <<"4", "2", "9", "4", "9", "6", "7", "2", "9", "5">>, <<"5">>, <<"8">>, <<"A">>),
      Rec(<<"T", "o", "C", "l", "n", "t">>, <<"S", "e", "l", "l">>,
                <<"+", "3">>, <<"3">>, <<"9">>, <<"B">>),
      Rec(<<"O", "t", "h", "e", "r">>, <<"B", "u", "y">>,
                <<"x">>, <<>>, <<"1">>, <<"A">>),
      Rec(<<"T", "o", "C", "l", "n", "t">>, <<"H", "o", "l", "d">>,
                <<"1">>, <<"2">>, <<"3">>, <<"B">>),
      Rec(<<"T", "o", "C", "l", "n", "t">>, <<"B", "u", "y">>,
                <<"1">>, <<"4", "2", "9", "4", "9", "6", "7", "2", "9", "6">>, <<"1">>, <<"B">>),
      Rec(<<"T", "o", "C", "l", "n", "t">>, <<"S", "e", "l", "l">>,
                <<"1", "x">>, <<"1">>, <<>>, <<"B">>),
      Raw(<<>>),
      Raw(<<"T", "o", "C", "l", "n", "t", ",", "B", "u", "y">>) }

RECURSIVE Join(_, _)
Join(segs, d) ==
    IF segs = <<>> THEN <<>>
    ELSE IF Len(segs) = 1 THEN segs[1]
    ELSE segs[1] \o <<d>> \o Join(Tail(segs), d)

RenderRow(layout, t) ==
    IF t.kind = "raw" THEN t.bytes
    ELSE Join([i \in 1..Len(layout) |-> t.f[layout[i]]], COMMA)

RenderHeader(layout) == Join([i \in 1..Len(layout) |-> ColumnName(layout[i])], COMMA)

FileText(layout, rs, nl) ==
    Join(<<RenderHeader(layout)>> \o [i \in 1..Len(rs) |-> RenderRow(layout, rs[i])], NL)
        \o (IF nl THEN <<NL>> ELSE <<>>)

RowSeqs == UNION {[1..n -> Templates] : n \in 0..MaxRows}

----------------------------------------------------------------------------
(* The runs: main (main.rs 13-46) is run on the same file once per layout  *)
(* and strategy, in the order of the match arms.                           *)

Strategies ==
    <<"calc_key_ref", "calc_key_clone", "calc_read", "calc_read_memchr", "calc_custom_read">>

Strategy == Strategies[si]
Streaming == {"calc_read", "calc_read_memchr", "calc_custom_read"}

NoResult == [status |-> "none", table |-> <<>>]

\* A plan of reads of c bytes each over n bytes.
UniformPlan(n, c) == [k \in 1..((n + c - 1) \div c) |-> Min(c, n - (k - 1) * c)]

ChunkSizes == (1..MaxChunk) \cup {BUF_CAP}

NoSource == NewSource(<<>>, 0)

Init ==
    /\ rows \in RowSeqs
    /\ eofnl \in BOOLEAN
    /\ oc \in BOOLEAN
    /\ li = 1
    /\ si = 1
    /\ text = FileText(Layouts[1], rows, eofnl)
    /\ pc = "main"
    /\ idx = NoIdx
    /\ products = <<>>
    /\ lines = <<>>
    /\ src = NoSource
    /\ br = <<>>
    /\ lr = LineReaderNew
    /\ line = <<>>
    /\ nrows = 0
    /\ out = {}
    /\ results = [l \in 1..Len(Layouts) |-> [s \in 1..Len(Strategies) |-> NoResult]]
    /\ yielded = <<>>

\* What a header line resolves to: the row loop, or the panic of unwrap().
Resolve(header) ==
    LET h == FromHeader(header)
    IN  /\ idx' = IF h.ok THEN h.idx ELSE NoIdx
        /\ pc' = IF h.ok THEN "rows" ELSE "aborted"

\* File::open: the source of a streaming run, with its read sizes and the
\* read that fails, if any.
Sources == {NewSource(UniformPlan(Len(text), c), f) : c \in ChunkSizes, f \in 0..MaxFail}

\* ProductData::fmt (main.rs 336-346): the fields of one report line; the
\* average is the quotient total_qty / count.
ReportLine(prod, pd) ==
    [prod |-> prod, count |-> pd.count, buys |-> pd.buys, sells |-> pd.sells,
     avg |-> <<pd.total_qty, pd.count>>]

\* print_products (main.rs 350-355): the lines written for the table p.
PrintProducts(p) == {ReportLine(k, p[k]) : k \in DOMAIN p}

\* The end of a row loop: the report, then the return to main.
Finish ==
    /\ pc' = "done"
    /\ out' = PrintProducts(products)

\* calc_key_ref, calc_key_clone called by main: the header
\* (main.rs 36-38, 56-57, 77-78).
CalcKeyHeader ==
    /\ pc = "main"
    /\ Strategy \in {"calc_key_ref", "calc_key_clone"}
    /\ LET ls == Split(text, NL)
       IN  /\ Resolve(Head(ls))
           /\ lines' = Tail(ls)
    /\ UNCHANGED <<rows, eofnl, oc, li, si, text, products, src, br, lr, line, nrows,
                   out, results, yielded>>

\* calc_read, calc_read_memchr called by main: the header
\* (main.rs 39-41, 98-102, 127-131).
CalcReadHeader ==
    /\ pc = "main"
    /\ Strategy \in {"calc_read", "calc_read_memchr"}
    /\ \E s0 \in Sources :
         LET r == ReadUntil(<<>>, s0)
         IN  /\ src' = r.src
             /\ br' = r.br
             /\ line' = r.line
             /\ IF r.err THEN pc' = "aborted" /\ idx' = idx
                ELSE Resolve(r.line)
    /\ UNCHANGED <<rows, eofnl, oc, li, si, text, products, lines, lr, nrows, out,
                   results, yielded>>

\* calc_custom_read called by main: the header (main.rs 42, 237-240).
CalcCustomReadHeader ==
    /\ pc = "main"
    /\ Strategy = "calc_custom_read"
    /\ \E s0 \in Sources :
         LET r == NextLine(LineReaderNew, s0)
         IN  /\ src' = r.src
             /\ lr' = r.lr
             /\ line' = r.ret.line
             /\ IF r.err \/ ~ r.ret.some THEN pc' = "aborted" /\ idx' = idx
                ELSE Resolve(r.ret.line)
    /\ UNCHANGED <<rows, eofnl, oc, li, si, text, products, lines, br, nrows, out,
                   results, yielded>>

\* One data line l through a loop body: the empty-line test, then the row.
LoopBody(l, row) ==
    /\ line' = l
    /\ nrows' = nrows + 1
    /\ out' = out
    /\ IF Len(l) = 0
       THEN pc' = "rows" /\ products' = products
       ELSE /\ products' = row.products
            /\ pc' = IF row.ok THEN "rows" ELSE "aborted"

\* The row loop of calc_key_ref and calc_key_clone (main.rs 61-72, 82-93).
KeyStep ==
    /\ pc = "rows"
    /\ IF lines = <<>>
       THEN /\ Finish
            /\ UNCHANGED <<lines, line, nrows, products>>
       ELSE /\ lines' = Tail(lines)
            /\ LoopBody(Head(lines), SplitRow(products, Head(lines), idx, oc))
    /\ UNCHANGED <<rows, eofnl, oc, li, si, text, idx, src, br, lr, results, yielded>>

CalcKeyRefStep == Strategy = "calc_key_ref" /\ KeyStep

CalcKeyCloneStep == Strategy = "calc_key_clone" /\ KeyStep

\* The row loop of calc_read (main.rs 106-122) and, with memchr = TRUE, of
\* calc_read_memchr (main.rs 135-172).
ReadStep(memchr) ==
    /\ pc = "rows"
    /\ LET r == ReadUntil(br, src)
       IN  /\ src' = r.src
           /\ br' = r.br
           /\ IF r.err
              THEN pc' = "aborted" /\ UNCHANGED <<line, nrows, products, out>>
              ELSE IF Len(r.line) = 0
              THEN Finish /\ line' = r.line /\ UNCHANGED <<nrows, products>>
              ELSE LoopBody(r.line, IF memchr THEN MemchrRow(products, r.line, idx, oc)
                                    ELSE SplitRow(products, r.line, idx, oc))
    /\ UNCHANGED <<rows, eofnl, oc, li, si, text, idx, lines, lr, results, yielded>>

CalcReadStep == Strategy = "calc_read" /\ ReadStep(FALSE)

CalcReadMemchrStep == Strategy = "calc_read_memchr" /\ ReadStep(TRUE)

\* The row loop of calc_custom_read (main.rs 244-257).
CustomStep ==
    /\ pc = "rows"
    /\ LET r == NextLine(lr, src)
       IN  /\ src' = r.src
           /\ lr' = r.lr
           /\ IF r.err
              THEN pc' = "aborted" /\ UNCHANGED <<line, nrows, products, out>>
              ELSE IF ~ r.ret.some
              THEN Finish /\ UNCHANGED <<line, nrows, products>>
              ELSE LoopBody(r.ret.line, SplitRow(products, r.ret.line, idx, oc))
    /\ UNCHANGED <<rows, eofnl, oc, li, si, text, idx, lines, br, results, yielded>>

CalcCustomReadStep == Strategy = "calc_custom_read" /\ CustomStep

Outcome ==
    IF pc = "done" THEN [status |-> "done", table |-> products]
    ELSE [status |-> "aborted", table |-> <<>>]

\* The strategy and layout of the run after this one: a run whose source
\* was made to fail is repeated, then comes the next strategy, then the first
\* strategy on the next layout.
NextRun ==
    IF src.fail # 0 THEN <<li, si>>
    ELSE IF si < Len(Strategies) THEN <<li, si + 1>>
    ELSE IF li < Len(Layouts) THEN <<li + 1, 1>>
    ELSE <<li, si>>

\* The process has exited (main.rs 45, or a panic).  The outcome of a run
\* whose source was not made to fail is kept, and main is run again.
Exit ==
    /\ pc \in {"done", "aborted"}
    /\ results' = IF src.fail = 0 THEN [results EXCEPT ![li][si] = Outcome] ELSE results
    /\ li' = NextRun[1]
    /\ si' = NextRun[2]
    /\ pc' = IF NextRun = <<li, si>> /\ src.fail = 0 THEN "finished" ELSE "main"
    /\ text' = FileText(Layouts[li'], rows, eofnl)
    /\ idx' = NoIdx
    /\ products' = <<>>
    /\ lines' = <<>>
    /\ src' = NoSource
    /\ br' = <<>>
    /\ lr' = LineReaderNew
    /\ line' = <<>>
    /\ nrows' = 0
    /\ out' = {}
    /\ UNCHANGED <<rows, eofnl, oc, yielded>>

Next ==
    \/ CalcKeyHeader
    \/ CalcReadHeader
    \/ CalcCustomReadHeader
    \/ CalcKeyRefStep
    \/ CalcKeyCloneStep
    \/ CalcReadStep
    \/ CalcReadMemchrStep
    \/ CalcCustomReadStep
    \/ Exit

Spec == Init /\ [][Next]_vars

----------------------------------------------------------------------------
(* The LineReader alone, over every text of up to MaxLen bytes and every   *)
(* way of splitting it into non-empty reads.                               *)

Alphabet == {"a", COMMA, NL}

Texts == UNION {[1..n -> Alphabet] : n \in 0..MaxLen}

RECURSIVE Compositions(_)
Compositions(n) ==
    IF n = 0 THEN {<<>>}
    ELSE UNION {{<<k>> \o c : c \in Compositions(n - k)} : k \in 1..n}

InitLR ==
    /\ text \in Texts
    /\ \E plan \in Compositions(Len(text)) : src = NewSource(plan, 0)
    /\ lr = LineReaderNew
    /\ yielded = <<>>
    /\ pc = "lines"
    /\ rows = <<>>
    /\ eofnl = FALSE
    /\ oc = FALSE
    /\ li = 1
    /\ si = Len(Strategies)
    /\ idx = NoIdx
    /\ products = <<>>
    /\ lines = <<>>
    /\ br = <<>>
    /\ line = <<>>
    /\ nrows = 0
    /\ out = {}
    /\ results = <<>>

\* A caller's loop: while let Some(line) = reader.next_line()?.
LRNextLine ==
    /\ pc = "lines"
    /\ LET r == NextLine(lr, src)
       IN  /\ src' = r.src
           /\ lr' = r.lr
           /\ line' = r.ret.line
           /\ yielded' = IF r.ret.some THEN Append(yielded, r.ret.line) ELSE yielded
           /\ pc' = IF r.ret.some THEN "lines" ELSE "eof"
    /\ UNCHANGED <<rows, eofnl, oc, li, si, text, idx, products, lines, br, nrows, out,
                   results>>

NextLR == LRNextLine

SpecLR == InitLR /\ [][NextLR]_vars

----------------------------------------------------------------------------
(* Vocabulary of the properties.                                           *)

\* A line without the newline that read_until leaves at its end.
StripNL(l) == IF l # <<>> /\ l[Len(l)] = NL THEN SubSeq(l, 1, Len(l) - 1) ELSE l

\* The fields of the record a line holds.
RecordFields(l) == Split(StripNL(l), COMMA)

\* This step is a loop iteration that consumed a data line, now in line'.
ConsumedLine == pc = "rows" /\ nrows' = nrows + 1

IsPrefix(a, b) == Len(a) <= Len(b) /\ \A i \in 1..Len(a) : a[i] = b[i]

\* The records of a text: its segments between newlines, without the empty
\* segment that follows a final newline.
ExpectedLines(t) ==
    LET segs == Split(t, NL)
    IN  IF segs[Len(segs)] = <<>> THEN SubSeq(segs, 1, Len(segs) - 1) ELSE segs

RequiredIdx(ix) == {ix.source, ix.bs, ix.ordqty, ix.wrkqty, ix.excqty, ix.prod}

MaxIdx(ix) == CHOOSE m \in RequiredIdx(ix) : \A j \in RequiredIdx(ix) : j <= m

AllDigits(f) == f # <<>> /\ \A i \in 1..Len(f) : f[i] \in Digits

\* The accumulator of key k in table p, zero when k has none yet.
Acc(p, k) == IF k \in DOMAIN p THEN p[k] ELSE DefaultProductData

----------------------------------------------------------------------------
(* C2: for every text and every split of it into non-empty reads followed  *)
(* by a zero-byte read, the lines next_line returns are, in order, the     *)
(* segments of the text between newlines (an empty segment gives an empty  *)
(* line, a non-empty final segment without newline is the last line), and  *)
(* next_line returns None only when every byte has been delivered and      *)
(* yielded, the refill returned zero bytes and no partial line is pending. *)
C2_NextLineYieldsSegments ==
    /\ IsPrefix(yielded, ExpectedLines(text))
    /\ pc = "eof" =>
          /\ Len(yielded) = Len(ExpectedLines(text))
          /\ src.pos = Len(text)
          /\ lr.len = 0
          /\ lr.line = <<>>

\* A text read in several pieces, one ending inside a line, that holds an
\* empty line and ends without a newline, has been read to its end.
C2_Witness ==
    /\ pc = "eof"
    /\ Len(src.plan) >= 2
    /\ text[src.plan[1]] # NL
    /\ \E i \in 1..Len(yielded) : yielded[i] = <<>>
    /\ text[Len(text)] # NL
    /\ yielded[Len(yielded)] # <<>>

----------------------------------------------------------------------------
(* C7: every accumulator of the table has count >= 1 and                   *)
(* buys + sells <= count; a row that changes an accumulator increments its *)
(* count by exactly one and at most one of buys (only when the B/S field   *)
(* is "Buy") and sells (only when it is "Sell"); with any other B/S field  *)
(* buys and sells stay as they are.                                        *)
AccumulatorOK(pd) == pd.count >= 1 /\ pd.buys + pd.sells <= pd.count

RowIncrements(old, new, f) ==
    /\ new.count = old.count + 1
    /\ new.buys \in {old.buys, old.buys + 1}
    /\ new.sells \in {old.sells, old.sells + 1}
    /\ new.buys = old.buys \/ new.sells = old.sells
    /\ new.buys # old.buys => idx.bs < Len(f) /\ f[idx.bs + 1] = Buy
    /\ new.sells # old.sells => idx.bs < Len(f) /\ f[idx.bs + 1] = Sell

C7_Step ==
    /\ \A k \in DOMAIN products' : AccumulatorOK(products'[k])
    /\ ConsumedLine =>
          \A k \in DOMAIN products' :
              \/ products'[k] = Acc(products, k) /\ k \in DOMAIN products
              \/ RowIncrements(Acc(products, k), products'[k], RecordFields(line'))

C7_CountsBounded == [][C7_Step]_vars

\* A row whose B/S field is neither "Buy" nor "Sell" has been added to an
\* accumulator that already counted a row.
C7_Witness ==
    /\ pc = "rows"
    /\ nrows = 2
    /\ idx.bs < Len(RecordFields(line))
    /\ RecordFields(line)[idx.bs + 1] \notin {Buy, Sell}
    /\ \E k \in DOMAIN products :
          /\ products[k].count = 2
          /\ products[k].buys + products[k].sells = 1
          /\ products[k].total_qty # Zero

----------------------------------------------------------------------------
(* C8: a data row that has a Source field other than "ToClnt" is discarded *)
(* without error, whatever its other fields hold: the table, key set       *)
(* included, is unchanged and the run goes on; only a row whose Source     *)
(* field is "ToClnt" changes the table.                                    *)
C8_Step ==
    ConsumedLine =>
        LET f == RecordFields(line') IN
        /\ (idx.source < Len(f) /\ f[idx.source + 1] # ToClnt) =>
              products' = products /\ pc' = "rows"
        /\ products' # products =>
              idx.source < Len(f) /\ f[idx.source + 1] = ToClnt

C8_FilteredRowsDiscarded == [][C8_Step]_vars

\* A row of another source with a malformed quantity has been consumed
\* after a row that was aggregated.
C8_Witness ==
    /\ pc = "rows"
    /\ nrows = 2
    /\ products # <<>>
    /\ LET f == RecordFields(line) IN
          /\ Len(f) > MaxIdx(idx)
          /\ f[idx.source + 1] # ToClnt
          /\ ~ ParseU32(f[idx.ordqty + 1]).ok

----------------------------------------------------------------------------
(* C10: report lines are written only by a run that has reached the end of *)
(* its input; a run that meets a fatal error (a required column missing    *)
(* from the header it read, an I/O error of the source, a row without the  *)
(* fields it needs, a quantity that does not parse) aborts at that step,   *)
(* an aborted run writes nothing and does nothing more, and a missing      *)
(* column aborts before any data row is processed.                         *)
Required == {SourceName, BSName, OrdQtyName, WrkQtyName, ExcQtyName, ProdName}

\* The header line the run reads in the step that leaves main.
HeaderRead ==
    IF Strategy \in {"calc_key_ref", "calc_key_clone"} THEN Split(text, NL)[1] ELSE line'

MissingColumn(h) ==
    LET cols == Split(h, COMMA)
    IN  Required \ {cols[i] : i \in DOMAIN cols} # {}

ReadFailed(s) == s.fail # 0 /\ s.k >= s.fail

\* The line l, as the tokenizer sees it, lacks a field the row needs or holds
\* a quantity that does not parse.
RowFatal(l, ix) ==
    LET f == Split(l, COMMA) IN
    /\ l # <<>>
    /\ \/ ix.source >= Len(f)
       \/ /\ f[ix.source + 1] = ToClnt
          /\ \/ MaxIdx(ix) >= Len(f)
             \/ \E q \in {ix.ordqty, ix.wrkqty, ix.excqty} : ~ ParseU32(f[q + 1]).ok

InputExhausted ==
    IF Strategy \in Streaming
    THEN src.pos = Len(text) /\ br = <<>> /\ lr.cur = lr.len /\ ~ ReadFailed(src)
    ELSE lines = <<>>

C10_Step ==
    /\ out' # {} => pc' = "done"
    /\ pc' = "done" => InputExhausted'
    /\ pc' = "aborted" => out' = {}
    /\ pc = "aborted" => pc' \in {"main", "finished"}
    /\ (pc = "main" /\ MissingColumn(HeaderRead)) =>
          pc' = "aborted" /\ nrows' = 0 /\ products' = <<>>
    /\ (ReadFailed(src') /\ ~ ReadFailed(src)) => pc' = "aborted"
    /\ (ConsumedLine /\ RowFatal(line', idx)) => pc' = "aborted"

----------------------------------------------------------------------------
(* C1: on the same file, every two strategies that have run end alike:     *)
(* with the same keys and the same count, buys, sells and total_qty for    *)
(* every key, whatever the sizes of the reads of the streaming ones.       *)
C1_StrategiesAgree ==
    \A l \in DOMAIN results : \A s, t \in DOMAIN results[l] :
        (results[l][s].status # "none" /\ results[l][t].status # "none") =>
            results[l][s] = results[l][t]

----------------------------------------------------------------------------
(* C3: a loop iteration that consumes an empty line leaves the table as it *)
(* was and the run goes on, in every strategy.                             *)
C3_EmptyLinesSkipped ==
    [][(ConsumedLine /\ StripNL(line') = <<>>) => (products' = products /\ pc' = "rows")]_vars

----------------------------------------------------------------------------
(* C4: a non-empty data row that lacks a field at a required column index  *)
(* aborts the run, whatever its Source field.                              *)
C4_ShortRowsFatal ==
    [][(/\ ConsumedLine
        /\ StripNL(line') # <<>>
        /\ Len(RecordFields(line')) <= MaxIdx(idx)) => pc' = "aborted"]_vars

----------------------------------------------------------------------------
(* C5: a row of source "ToClnt" with all its fields, one of whose three    *)
(* quantities is empty, holds a byte that is no ASCII digit, or is too     *)
(* large for a u32, aborts the run and adds nothing to any total_qty.      *)
BadQuantity(f) == ~ AllDigits(f) \/ ~ ParseU32(f).ok

C5_Step ==
    LET f == RecordFields(line') IN
    (/\ ConsumedLine
     /\ Len(f) > MaxIdx(idx)
     /\ f[idx.source + 1] = ToClnt
     /\ \E q \in {idx.ordqty, idx.wrkqty, idx.excqty} : BadQuantity(f[q + 1]))
    => /\ pc' = "aborted"
       /\ \A k \in DOMAIN products' : products'[k].total_qty = Acc(products, k).total_qty

C5_BadQuantityFatal == [][C5_Step]_vars

----------------------------------------------------------------------------
(* C6: a run of calc_key_ref or calc_key_clone over a well-formed file     *)
(* (every line empty or a full record, every quantity of a "ToClnt" record *)
(* a u32 in ASCII digits) ends with a report, and then every product has   *)
(* the exact sum of the maxima of its rows as total_qty and the number of  *)
(* its rows as count.  The exact sum keeps hi unbounded: it does not wrap. *)
Qualifies(t) == t.kind = "rec" /\ t.f.Source = ToClnt

WellFormedRow(t) ==
    IF t.kind = "raw" THEN t.bytes = <<>>
    ELSE Qualifies(t) =>
            \A q \in {"OrdQty", "WrkQty", "ExcQty"} : AllDigits(t.f[q]) /\ ParseU32(t.f[q]).ok

WellFormed(rs) == \A i \in 1..Len(rs) : WellFormedRow(rs[i])

RowMax(t) ==
    MaxU32(ParseU32(t.f.OrdQty).val,
           MaxU32(ParseU32(t.f.WrkQty).val, ParseU32(t.f.ExcQty).val))

ExactAdd(a, b) ==
    [hi |-> a.hi + b.hi + ((a.lo + b.lo) \div LIMB), lo |-> (a.lo + b.lo) % LIMB]

RECURSIVE ExactTotal(_, _, _)
ExactTotal(rs, key, i) ==
    IF i > Len(rs) THEN Zero
    ELSE IF Qualifies(rs[i]) /\ rs[i].f.Prod = key
    THEN ExactAdd(RowMax(rs[i]), ExactTotal(rs, key, i + 1))
    ELSE ExactTotal(rs, key, i + 1)

RowCount(rs, key) ==
    Cardinality({i \in 1..Len(rs) : Qualifies(rs[i]) /\ rs[i].f.Prod = key})

Keys(rs) == {rs[i].f.Prod : i \in {j \in 1..Len(rs) : Qualifies(rs[j])}}

C6_TotalQtyExact ==
    (/\ rows # <<>>
     /\ WellFormed(rows)
     /\ li \in Permuted
     /\ Strategy \in {"calc_key_ref", "calc_key_clone"}
     /\ pc \in {"done", "aborted"})
    => /\ pc = "done"
       /\ DOMAIN products = Keys(rows)
       /\ \A k \in DOMAIN products :
             /\ products[k].total_qty = ExactTotal(rows, k, 1)
             /\ products[k].count = RowCount(rows, k)

----------------------------------------------------------------------------
(* C9: on a file whose data lines are all full records, every strategy     *)
(* ends on each permuted layout as it ends on the first layout.            *)
AllRecords(rs) == \A i \in 1..Len(rs) : rs[i].kind = "rec"

C9_HeaderOrderIndependent ==
    AllRecords(rows) =>
        \A l \in Permuted \cap DOMAIN results : \A s \in DOMAIN results[l] :
            (results[l][s].status # "none" /\ results[1][s].status # "none") =>
                results[l][s] = results[1][s]

====
